---- MODULE Spec2Model ----
(***************************************************************************)
(* A model of the two release scripts of java-html-sanitizer:              *)
(*   tools/update_tree_in_svn.py  (sync: the tree reconciler)              *)
(*   tools/cut_release.py         (packaging a maven version directory)    *)
(*                                                                         *)
(* sync is a recursive walk; it is modelled as a stack machine with one    *)
(* step per call of handle and per call of an action of the table.  The    *)
(* commands sync prints are kept, in order, in `out`; a later phase runs   *)
(* the printed filesystem commands against the filesystem and a second     *)
(* run of sync follows.                                                    *)
(***************************************************************************)
EXTENDS Integers, Sequences, FiniteSets, TLC

\* update_tree_in_svn.py
VARIABLES fs, stack, conflict, svn_adds, svn_deletes, svn_propsets, items,
          out, log, pc, run, xi

\* cut_release.py
VARIABLES mfs, tstack, files_to_rewrite, new_file_paths, ok,
          version_directory_path, exc, ri, created, printed, rpc

svars == <<fs, stack, conflict, svn_adds, svn_deletes, svn_propsets, items,
           out, log, pc, run, xi>>

rvars == <<mfs, tstack, files_to_rewrite, new_file_paths, ok,
           version_directory_path, exc, ri, created, printed, rpc>>

vars == <<svars, rvars>>

(***************************************************************************)
(* Bounds and input alphabets.                                             *)
(***************************************************************************)
\* Entries (files and directories) below the two roots, both trees together.
MaxEntries == 2

\* File contents.
Contents == {"hi", "yo"}

\* Names a directory entry can have.
Names == {"a", "x.txt", "l.js", "r.md", ".svn"}

\* The characters of a name, in chunks: "." is a chunk of its own.
Tokens(name) ==
    CASE name = "a"     -> <<"a">>
      [] name = "x.txt" -> <<"x", ".", "txt">>
      [] name = "l.js"  -> <<"l", ".", "js">>
      [] name = "r.md"  -> <<"r", ".", "md">>
      [] name = ".svn"  -> <<".", "svn">>
      [] OTHER          -> <<name>>

\* sys.argv[1] and sys.argv[2]
SrcRoot == <<"s">>
DstRoot == <<"d">>

FILE == "f"
DIR == "d"
NO_EXIST == "n"

None == "None"

\* What version_directory_path and exc hold when they hold nothing.
NoPath == <<>>

NoError == "none"

MIME_TYPES_BY_EXTENSION ==
    (<<"html">> :> "text/html;charset=UTF-8") @@
    (<<"txt">>  :> "text/plain;charset=UTF-8") @@
    (<<"css">>  :> "text/css;charset=UTF-8") @@
    (<<"js">>   :> "text/javascript;charset=UTF-8") @@
    (<<"jar">>  :> "application/x-java-archive") @@
    (<<"xsl">>  :> "text/xml;charset=UTF-8") @@
    (<<"gif">>  :> "image/gif") @@
    (<<"png">>  :> "image/png")

(***************************************************************************)
(* The filesystem: a function from the paths that exist to "d" (a          *)
(* directory) or the content of a file.  A path is a sequence of names.    *)
(***************************************************************************)
IsDirIn(f, p) == p \in DOMAIN f /\ f[p] = DIR

\* os.path.exists
exists(p) == p \in DOMAIN fs

\* os.path.isdir
isdir(p) == IsDirIn(fs, p)

\* os.listdir
listdir(p) == {q[Len(q)] : q \in {r \in DOMAIN fs : Len(r) = Len(p) + 1 /\ SubSeq(r, 1, Len(p)) = p}}

\* os.path.join(path, child)
join(p, child) == Append(p, child)

classify(path) ==
    IF ~exists(path) THEN NO_EXIST
    ELSE IF isdir(path) THEN DIR
    ELSE FILE

\* filecmp.cmp(src, dst, shallow=0): the bytes are equal
cmp(src, dst) == fs[src] = fs[dst]

(***************************************************************************)
(* Paths as strings.                                                       *)
(***************************************************************************)
RECURSIVE PathString(_)
PathString(p) ==
    IF Len(p) = 0 THEN <<>>
    ELSE IF Len(p) = 1 THEN Tokens(p[1])
    ELSE PathString(SubSeq(p, 1, Len(p) - 1)) \o <<"/">> \o Tokens(p[Len(p)])

\* As rfind, but the first occurrence (str.find).
rfind_first(s, t) ==
    LET hits == {i \in 1..Len(s) : s[i] = t}
    IN  IF hits = {} THEN -1
        ELSE (CHOOSE i \in hits : \A j \in hits : i <= j) - 1

\* str.rfind: the 0-based place of the last occurrence, -1 when there is none
rfind(s, t) ==
    LET hits == {i \in 1..Len(s) : s[i] = t}
    IN  IF hits = {} THEN -1
        ELSE (CHOOSE i \in hits : \A j \in hits : j <= i) - 1

\* dict.get
MimeGet(ext) ==
    IF ext \in DOMAIN MIME_TYPES_BY_EXTENSION THEN MIME_TYPES_BY_EXTENSION[ext] ELSE None

\* svn_add's lookup of the mime type of dst (None: no property)
MimeOf(dst) ==
    LET s   == PathString(dst)
        dot == rfind(s, ".")
    IN  IF dot >= 0 THEN MimeGet(SubSeq(s, dot + 2, Len(s))) ELSE None

(***************************************************************************)
(* The initial filesystems: each root absent, a file or a directory, and   *)
(* at most MaxEntries entries below the roots that are directories.        *)
(***************************************************************************)
Kinds == {DIR} \cup Contents

RootStates == {NO_EXIST} \cup Kinds

RootFS(a, b) ==
    [p \in ({SrcRoot} \cap (IF a = NO_EXIST THEN {} ELSE {SrcRoot})) \cup
           ({DstRoot} \cap (IF b = NO_EXIST THEN {} ELSE {DstRoot}))
       |-> IF p = SrcRoot THEN a ELSE b]

Grow(S) ==
    S \cup { (join(p, n) :> k) @@ f :
               <<f, p, n, k>> \in
                 { t \in UNION { {g} \X {q \in DOMAIN g : g[q] = DIR} \X Names \X Kinds : g \in S } :
                     join(t[2], t[3]) \notin DOMAIN t[1] } }

RECURSIVE GrowN(_, _)
GrowN(S, n) == IF n = 0 THEN S ELSE GrowN(Grow(S), n - 1)

InitFS == GrowN({RootFS(a, b) : <<a, b>> \in RootStates \X RootStates}, MaxEntries)

(***************************************************************************)
(* sync                                                                    *)
(***************************************************************************)
\* As actions, but a directory with no source is removed before its children.
actions_RemoveFirst ==
    (<<NO_EXIST, NO_EXIST>> :> <<>>) @@
    (<<NO_EXIST, FILE>>     :> <<"remove", "svn_delete">>) @@
    (<<NO_EXIST, DIR>>      :> <<"remove", "svn_delete", "recurse">>) @@
    (<<FILE, NO_EXIST>>     :> <<"copy", "svn_add">>) @@
    (<<FILE, FILE>>         :> <<"copy_if_different">>) @@
    (<<FILE, DIR>>          :> <<"recurse", "remove", "svn_delete", "copy", "svn_add", "cnf">>) @@
    (<<DIR, NO_EXIST>>      :> <<"mkdir", "svn_add", "recurse">>) @@
    (<<DIR, FILE>>          :> <<"remove", "svn_delete", "mkdir", "svn_add", "recurse", "cnf">>) @@
    (<<DIR, DIR>>           :> <<"recurse">>)

\* The table of actions, by (classify(src), classify(dst)).
actions ==
    (<<NO_EXIST, NO_EXIST>> :> <<>>) @@
    (<<NO_EXIST, FILE>>     :> <<"remove", "svn_delete">>) @@
    (<<NO_EXIST, DIR>>      :> <<"recurse", "remove", "svn_delete">>) @@
    (<<FILE, NO_EXIST>>     :> <<"copy", "svn_add">>) @@
    (<<FILE, FILE>>         :> <<"copy_if_different">>) @@
    (<<FILE, DIR>>          :> <<"recurse", "remove", "svn_delete", "copy", "svn_add", "cnf">>) @@
    (<<DIR, NO_EXIST>>      :> <<"mkdir", "svn_add", "recurse">>) @@
    (<<DIR, FILE>>          :> <<"remove", "svn_delete", "mkdir", "svn_add", "recurse", "cnf">>) @@
    (<<DIR, DIR>>           :> <<"recurse">>)

\* A command line: argv[0], the flags and verbs, the path arguments.
Cmd(c, flags, args) == [cmd |-> c, flags |-> flags, args |-> args]

\* A call of handle that has not classified yet.
Frame(src, dst) ==
    [src |-> src, dst |-> dst, src_t |-> NO_EXIST, dst_t |-> NO_EXIST,
     todo |-> <<>>, kids |-> {}, at |-> "enter"]

Top == stack[Len(stack)]

SetTop(f) == [stack EXCEPT ![Len(stack)] = f]

\* The action the innermost call of handle is about to call.
AtAction(name) ==
    /\ pc = "sync"
    /\ stack # <<>>
    /\ Top.at = "run"
    /\ Top.todo # <<>>
    /\ Head(Top.todo) = name

\* The action has returned.
Step == SetTop([Top EXCEPT !.todo = Tail(@)])

Logged(name) ==
    Append(log, [a |-> name, src |-> Top.src, dst |-> Top.dst,
                 src_t |-> Top.src_t, dst_t |-> Top.dst_t])

\* remove's command line
RemoveCmd(src, dst) == Cmd("rm", <<>>, <<dst>>)

\* copy's command line
CopyCmd(src, dst) == Cmd("cp", <<"-f">>, <<src, dst>>)

\* mkdir's command line
MkdirCmd(src, dst) == Cmd("mkdir", <<>>, <<dst>>)

\* As Children, but the destination is not listed.
Children_SourceOnly(src, dst) ==
    (IF isdir(src) THEN listdir(src) ELSE {}) \ {".svn"}

\* The children recurse walks.
Children(src, dst) ==
    ((IF isdir(src) THEN listdir(src) ELSE {}) \cup
     (IF isdir(dst) THEN listdir(dst) ELSE {})) \ {".svn"}

\* As CopyIfDifferentOut, but without the comparison.
CopyIfDifferentOut_Always(src, dst) == <<CopyCmd(src, dst)>>

\* What copy_if_different prints.
CopyIfDifferentOut(src, dst) ==
    IF ~cmp(src, dst) THEN <<CopyCmd(src, dst)>> ELSE <<>>

\* As PropsetsAfterAdd, but a new list replaces the list of the key.
PropsetsAfterAdd_NewList(dst) ==
    LET mime_type == MimeOf(dst)
        key       == <<"svn:mime-type", mime_type>>
    IN  IF mime_type # None
        THEN (key :> <<dst>>) @@ svn_propsets
        ELSE svn_propsets

\* svn_propsets after svn_add(src, dst)
PropsetsAfterAdd(dst) ==
    LET mime_type == MimeOf(dst)
        key       == <<"svn:mime-type", mime_type>>
    IN  IF mime_type # None
        THEN IF key \notin DOMAIN svn_propsets
             THEN (key :> <<dst>>) @@ svn_propsets
             ELSE [svn_propsets EXCEPT ![key] = Append(@, dst)]
        ELSE svn_propsets

\* The value of the enclosing `conflict` after cnf: the assignment in cnf
\* binds a name local to cnf.
ConflictAfterCnf == conflict

Handle ==
    /\ pc = "sync"
    /\ stack # <<>>
    /\ Top.at = "enter"
    /\ LET src_t == classify(Top.src)
           dst_t == classify(Top.dst)
           f     == [Top EXCEPT !.src_t = src_t, !.dst_t = dst_t,
                                !.todo = actions[<<src_t, dst_t>>], !.at = "run"]
       IN  /\ stack' = SetTop(f)
           /\ log' = Append(log, [a |-> "handle", src |-> f.src, dst |-> f.dst,
                                  src_t |-> src_t, dst_t |-> dst_t])
    /\ UNCHANGED <<fs, conflict, svn_adds, svn_deletes, svn_propsets, items, out, pc, run, xi>>
    /\ UNCHANGED rvars

Remove ==
    /\ AtAction("remove")
    /\ out' = Append(out, RemoveCmd(Top.src, Top.dst))
    /\ log' = Logged("remove")
    /\ stack' = Step
    /\ UNCHANGED <<fs, conflict, svn_adds, svn_deletes, svn_propsets, items, pc, run, xi>>
    /\ UNCHANGED rvars

SvnDelete ==
    /\ AtAction("svn_delete")
    /\ svn_deletes' = Append(svn_deletes, Top.dst)
    /\ log' = Logged("svn_delete")
    /\ stack' = Step
    /\ UNCHANGED <<fs, conflict, svn_adds, svn_propsets, items, out, pc, run, xi>>
    /\ UNCHANGED rvars

Recurse ==
    /\ AtAction("recurse")
    /\ stack' = SetTop([Top EXCEPT !.kids = Children(Top.src, Top.dst), !.at = "loop"])
    /\ log' = Logged("recurse")
    /\ UNCHANGED <<fs, conflict, svn_adds, svn_deletes, svn_propsets, items, out, pc, run, xi>>
    /\ UNCHANGED rvars

\* One turn of recurse's loop: a set is walked in any order.
RecurseChild ==
    /\ pc = "sync"
    /\ stack # <<>>
    /\ Top.at = "loop"
    /\ \E child \in Top.kids :
         stack' = Append(SetTop([Top EXCEPT !.kids = @ \ {child}]),
                         Frame(join(Top.src, child), join(Top.dst, child)))
    /\ UNCHANGED <<fs, conflict, svn_adds, svn_deletes, svn_propsets, items, out, log, pc, run, xi>>
    /\ UNCHANGED rvars

RecurseReturn ==
    /\ pc = "sync"
    /\ stack # <<>>
    /\ Top.at = "loop"
    /\ Top.kids = {}
    /\ stack' = SetTop([Top EXCEPT !.todo = Tail(@), !.at = "run"])
    /\ UNCHANGED <<fs, conflict, svn_adds, svn_deletes, svn_propsets, items, out, log, pc, run, xi>>
    /\ UNCHANGED rvars

Copy ==
    /\ AtAction("copy")
    /\ out' = Append(out, CopyCmd(Top.src, Top.dst))
    /\ log' = Logged("copy")
    /\ stack' = Step
    /\ UNCHANGED <<fs, conflict, svn_adds, svn_deletes, svn_propsets, items, pc, run, xi>>
    /\ UNCHANGED rvars

CopyIfDifferent ==
    /\ AtAction("copy_if_different")
    /\ out' = out \o CopyIfDifferentOut(Top.src, Top.dst)
    /\ log' = Logged("copy_if_different")
    /\ stack' = Step
    /\ UNCHANGED <<fs, conflict, svn_adds, svn_deletes, svn_propsets, items, pc, run, xi>>
    /\ UNCHANGED rvars

SvnAdd ==
    /\ AtAction("svn_add")
    /\ svn_adds' = Append(svn_adds, Top.dst)
    /\ svn_propsets' = PropsetsAfterAdd(Top.dst)
    /\ log' = Logged("svn_add")
    /\ stack' = Step
    /\ UNCHANGED <<fs, conflict, svn_deletes, items, out, pc, run, xi>>
    /\ UNCHANGED rvars

Cnf ==
    /\ AtAction("cnf")
    /\ conflict' = ConflictAfterCnf
    /\ log' = Logged("cnf")
    /\ stack' = Step
    /\ UNCHANGED <<fs, svn_adds, svn_deletes, svn_propsets, items, out, pc, run, xi>>
    /\ UNCHANGED rvars

Mkdir ==
    /\ AtAction("mkdir")
    /\ out' = Append(out, MkdirCmd(Top.src, Top.dst))
    /\ log' = Logged("mkdir")
    /\ stack' = Step
    /\ UNCHANGED <<fs, conflict, svn_adds, svn_deletes, svn_propsets, items, pc, run, xi>>
    /\ UNCHANGED rvars

\* handle returns; the outermost call ends the loop over src_to_dest.
Return ==
    /\ pc = "sync"
    /\ stack # <<>>
    /\ Top.at = "run"
    /\ Top.todo = <<>>
    /\ stack' = SubSeq(stack, 1, Len(stack) - 1)
    /\ pc' = IF Len(stack) = 1 THEN "deletes" ELSE "sync"
    /\ UNCHANGED <<fs, conflict, svn_adds, svn_deletes, svn_propsets, items, out, log, run, xi>>
    /\ UNCHANGED rvars

\* The commit between the deletes and the adds names commit_args, which
\* nothing defines: reaching it raises NameError.
FinalDeletes ==
    /\ pc = "deletes"
    /\ IF Len(svn_deletes) # 0
       THEN /\ out' = Append(out, Cmd("svn", <<"delete">>, svn_deletes))
            /\ pc' = IF conflict THEN "NameError" ELSE "adds"
       ELSE /\ out' = out
            /\ pc' = "adds"
    /\ UNCHANGED <<fs, stack, conflict, svn_adds, svn_deletes, svn_propsets, items, log, run, xi>>
    /\ UNCHANGED rvars

FinalAdds ==
    /\ pc = "adds"
    /\ out' = IF Len(svn_adds) # 0
              THEN Append(out, Cmd("svn", <<"add", "--depth=empty">>, svn_adds))
              ELSE out
    /\ items' = DOMAIN svn_propsets
    /\ pc' = "propsets"
    /\ UNCHANGED <<fs, stack, conflict, svn_adds, svn_deletes, svn_propsets, log, run, xi>>
    /\ UNCHANGED rvars

\* One turn of the loop over svn_propsets.items(): a dict is walked in any order.
FinalPropset ==
    /\ pc = "propsets"
    /\ \E key \in items :
         /\ out' = Append(out, Cmd("svn", <<"propset", key[1], key[2]>>, svn_propsets[key]))
         /\ items' = items \ {key}
    /\ UNCHANGED <<fs, stack, conflict, svn_adds, svn_deletes, svn_propsets, log, pc, run, xi>>
    /\ UNCHANGED rvars

\* sync returns.
FinalReturn ==
    /\ pc = "propsets"
    /\ items = {}
    /\ pc' = IF run = 1 THEN "exec" ELSE "done"
    /\ xi' = 1
    /\ UNCHANGED <<fs, stack, conflict, svn_adds, svn_deletes, svn_propsets, items, out, log, run>>
    /\ UNCHANGED rvars

(***************************************************************************)
(* Running the printed filesystem commands, in order, as a shell does: a   *)
(* command that fails changes nothing and the next one runs.               *)
(***************************************************************************)
Without(f, p) == [q \in DOMAIN f \ {p} |-> f[q]]

ParentIsDir(f, p) == Len(p) = 1 \/ IsDirIn(f, SubSeq(p, 1, Len(p) - 1))

\* rm [-r] dst: removes a file; without -r it refuses a directory; it
\* fails on a path that does not exist
RmFS(f, flags, dst) ==
    IF dst \notin DOMAIN f THEN f
    ELSE IF f[dst] # DIR THEN Without(f, dst)
    ELSE IF \E k \in 1..Len(flags) : flags[k] \in {"-r", "-R", "-rf", "-fr", "--recursive"}
         THEN [q \in {r \in DOMAIN f : r # dst /\ ~(Len(r) > Len(dst) /\ SubSeq(r, 1, Len(dst)) = dst)} |-> f[q]]
         ELSE f

\* cp -f src dst: into dst when dst is a directory; src must be a file
CpFS(f, src, dst) ==
    IF src \notin DOMAIN f \/ f[src] = DIR THEN f
    ELSE LET target == IF IsDirIn(f, dst) THEN Append(dst, src[Len(src)]) ELSE dst
         IN  IF IsDirIn(f, target) \/ ~ParentIsDir(f, target) THEN f
             ELSE (target :> f[src]) @@ f

\* mkdir dst: dst must not exist and its parent must
MkdirFS(f, dst) ==
    IF dst \notin DOMAIN f /\ ParentIsDir(f, dst) THEN (dst :> DIR) @@ f ELSE f

AtCommand(c) ==
    /\ pc = "exec"
    /\ xi <= Len(out)
    /\ out[xi].cmd = c

ExecRm ==
    /\ AtCommand("rm")
    /\ fs' = RmFS(fs, out[xi].flags, out[xi].args[1])
    /\ xi' = xi + 1
    /\ UNCHANGED <<stack, conflict, svn_adds, svn_deletes, svn_propsets, items, out, log, pc, run>>
    /\ UNCHANGED rvars

ExecCp ==
    /\ AtCommand("cp")
    /\ fs' = CpFS(fs, out[xi].args[1], out[xi].args[2])
    /\ xi' = xi + 1
    /\ UNCHANGED <<stack, conflict, svn_adds, svn_deletes, svn_propsets, items, out, log, pc, run>>
    /\ UNCHANGED rvars

ExecMkdir ==
    /\ AtCommand("mkdir")
    /\ fs' = MkdirFS(fs, out[xi].args[1])
    /\ xi' = xi + 1
    /\ UNCHANGED <<stack, conflict, svn_adds, svn_deletes, svn_propsets, items, out, log, pc, run>>
    /\ UNCHANGED rvars

\* The svn commands are no filesystem commands: they are passed over.
ExecSvn ==
    /\ AtCommand("svn")
    /\ xi' = xi + 1
    /\ UNCHANGED <<fs, stack, conflict, svn_adds, svn_deletes, svn_propsets, items, out, log, pc, run>>
    /\ UNCHANGED rvars

\* sync is run a second time, on the filesystem the commands left.
Rerun ==
    /\ pc = "exec"
    /\ xi > Len(out)
    /\ stack' = <<Frame(SrcRoot, DstRoot)>>
    /\ conflict' = FALSE
    /\ svn_adds' = <<>>
    /\ svn_deletes' = <<>>
    /\ svn_propsets' = <<>>
    /\ items' = {}
    /\ out' = <<>>
    /\ log' = <<>>
    /\ pc' = "sync"
    /\ run' = 2
    /\ xi' = 1
    /\ UNCHANGED fs
    /\ UNCHANGED rvars

\* The variables of a script that is not the one running.
ReleaseIdle ==
    /\ mfs = <<>>
    /\ tstack = <<>>
    /\ files_to_rewrite = <<>>
    /\ new_file_paths = <<>>
    /\ ok = FALSE
    /\ version_directory_path = NoPath
    /\ exc = NoError
    /\ ri = 1
    /\ created = FALSE
    /\ printed = <<>>
    /\ rpc = "idle"

SyncIdle ==
    /\ fs = <<>>
    /\ stack = <<>>
    /\ conflict = FALSE
    /\ svn_adds = <<>>
    /\ svn_deletes = <<>>
    /\ svn_propsets = <<>>
    /\ items = {}
    /\ out = <<>>
    /\ log = <<>>
    /\ pc = "idle"
    /\ run = 1
    /\ xi = 1

Init ==
    /\ fs \in InitFS
    /\ stack = <<Frame(SrcRoot, DstRoot)>>
    /\ conflict = FALSE
    /\ svn_adds = <<>>
    /\ svn_deletes = <<>>
    /\ svn_propsets = <<>>
    /\ items = {}
    /\ out = <<>>
    /\ log = <<>>
    /\ pc = "sync"
    /\ run = 1
    /\ xi = 1
    /\ ReleaseIdle

Next ==
    \/ Handle
    \/ Remove
    \/ SvnDelete
    \/ Recurse
    \/ RecurseChild
    \/ RecurseReturn
    \/ Copy
    \/ CopyIfDifferent
    \/ SvnAdd
    \/ Cnf
    \/ Mkdir
    \/ Return
    \/ FinalDeletes
    \/ FinalAdds
    \/ FinalPropset
    \/ FinalReturn
    \/ ExecRm
    \/ ExecCp
    \/ ExecMkdir
    \/ ExecSvn
    \/ Rerun

Spec == Init /\ [][Next]_vars

(***************************************************************************)
(* cut_release.py.  Paths are relative to the maven directory; a name is a *)
(* sequence of chunks, and a chunk "+++w+++" is a field of the template.   *)
(***************************************************************************)
\* The fields read from svn info.
fields == ("+++version+++" :> "r223") @@ ("+++timestamp+++" :> "20130212")

\* The chunks the pattern \+\+\+(\w+)\+\+\+ matches.
FieldChunks == {"+++version+++", "+++timestamp+++", "+++nofield+++"}

\* replace_fields raises KeyError on a field that `fields` lacks.
ReplaceRaises(name) ==
    \E i \in 1..Len(name) : name[i] \in FieldChunks /\ name[i] \notin DOMAIN fields

replace_fields(name) ==
    [i \in 1..Len(name) |-> IF name[i] \in FieldChunks THEN fields[name[i]] ELSE name[i]]

\* The last name of version_template_directory_path
TemplateName == <<"+++version+++">>

version_template_directory_path == <<TemplateName>>

\* The maven directory itself.
maven_directory_path == <<>>

versioned_jar_path == Append(version_template_directory_path, <<"owasp-java-html-sanitizer-", "+++version+++", ".jar">>)

versioned_src_jar_path == Append(version_template_directory_path, <<"owasp-java-html-sanitizer-", "+++version+++", "-sources", ".jar">>)

versioned_doc_jar_path == Append(version_template_directory_path, <<"owasp-java-html-sanitizer-", "+++version+++", "-javadoc", ".jar">>)

VersionedJars == {versioned_jar_path, versioned_src_jar_path, versioned_doc_jar_path}

mime_type_from_path(path) ==
    LET name == path[Len(path)]
    IN  IF name[Len(name)] = ".pom" THEN "text/xml;charset=UTF-8"
        ELSE IF name[Len(name)] = ".jar" THEN "application/java-archive"
        ELSE None

\* mime_type is None or mime_type.startswith("text/")
NeedsRewrite(mime_type) == mime_type = None \/ mime_type = "text/xml;charset=UTF-8"

\* The template files a release can find besides the three jars, and what
\* they hold: "text" (lines to expand) or "badfield" (a line naming a field
\* that `fields` lacks).
PomName == <<"owasp-java-html-sanitizer-", "+++version+++", ".pom">>
NoFieldName == <<"+++nofield+++", ".txt">>
SvnName == <<".svn">>
SubName == <<"sub">>
NotesName == <<"notes", ".txt">>

TextKinds == {"text", "badfield"}

Only(path, kinds) == {[q \in {} |-> DIR]} \cup {(path :> k) : k \in kinds}

InitMFS ==
    { (version_template_directory_path :> DIR) @@ a @@ b @@ c @@ d @@ e @@ v :
        <<a, b, c, d, e, v>> \in
            Only(Append(version_template_directory_path, PomName), TextKinds)
         \X Only(Append(version_template_directory_path, NoFieldName), {"text"})
         \X Only(Append(version_template_directory_path, SvnName), {DIR})
         \X Only(Append(version_template_directory_path, SubName), {DIR})
         \X Only(Append(Append(version_template_directory_path, SubName), NotesName), TextKinds)
         \X Only(<<replace_fields(TemplateName)>>, {DIR}) }

WellFormed(f) == \A p \in DOMAIN f : Len(p) > 1 => IsDirIn(f, SubSeq(p, 1, Len(p) - 1))

mlistdir(f, p) == {q[Len(q)] : q \in {r \in DOMAIN f : Len(r) = Len(p) + 1 /\ SubSeq(r, 1, Len(p)) = p}}

\* shutil.rmtree
rmtree(f, p) == [q \in {r \in DOMAIN f : ~(Len(r) >= Len(p) /\ SubSeq(r, 1, Len(p)) = p)} |-> f[q]]

\* "." == child[0:1]
StartsWithDot(child) == child[1] \in {".svn", ".pom", ".jar", ".txt"}

\* A call of copy_directory_structure_template that has not started.
Call(src_path, container_path) ==
    [src_path |-> src_path, container_path |-> container_path, dest_path |-> NoPath,
     kids |-> {}, at |-> "enter"]

TTop == tstack[Len(tstack)]

\* An exception leaves every frame of the copy and enters the finally block.
Raise(e) ==
    /\ exc' = e
    /\ tstack' = <<>>
    /\ rpc' = "finally"

\* Lines 156-158: the three jars are copied into the template directory.
CopyJars ==
    /\ rpc = "jars"
    /\ mfs' = [p \in VersionedJars |-> "jar"] @@ mfs
    /\ tstack' = <<Call(version_template_directory_path, maven_directory_path)>>
    /\ rpc' = "copy"
    /\ UNCHANGED <<files_to_rewrite, new_file_paths, ok, version_directory_path, exc, ri, created, printed>>
    /\ UNCHANGED svars

\* copy_directory_structure_template up to its loop (a directory) or to its
\* return (a file).
TemplateCall ==
    /\ rpc = "copy"
    /\ tstack # <<>>
    /\ TTop.at = "enter"
    /\ LET src_path  == TTop.src_path
           name      == src_path[Len(src_path)]
           dest_path == Append(TTop.container_path, replace_fields(name))
       IN  IF ReplaceRaises(name)
           THEN /\ Raise("KeyError")
                /\ UNCHANGED <<mfs, files_to_rewrite, new_file_paths, version_directory_path, created>>
           ELSE IF IsDirIn(mfs, src_path)
           THEN IF dest_path \in DOMAIN mfs
                THEN /\ Raise("OSError")
                     /\ UNCHANGED <<mfs, files_to_rewrite, new_file_paths, version_directory_path, created>>
                ELSE /\ mfs' = (dest_path :> DIR) @@ mfs
                     /\ tstack' = [tstack EXCEPT ![Len(tstack)] =
                                      [TTop EXCEPT !.dest_path = dest_path,
                                                   !.kids = mlistdir(mfs', src_path),
                                                   !.at = "loop"]]
                     /\ created' = (created \/ Len(tstack) = 1)
                     /\ UNCHANGED <<files_to_rewrite, new_file_paths, version_directory_path, exc, rpc>>
           ELSE IF IsDirIn(mfs, dest_path)
           THEN /\ Raise("IOError")
                /\ UNCHANGED <<mfs, files_to_rewrite, new_file_paths, version_directory_path, created>>
           ELSE /\ mfs' = (dest_path :> mfs[src_path]) @@ mfs
                /\ files_to_rewrite' = IF NeedsRewrite(mime_type_from_path(dest_path))
                                       THEN Append(files_to_rewrite, dest_path)
                                       ELSE files_to_rewrite
                /\ new_file_paths' = Append(new_file_paths, dest_path)
                /\ tstack' = SubSeq(tstack, 1, Len(tstack) - 1)
                /\ UNCHANGED <<version_directory_path, exc, created, rpc>>
    /\ UNCHANGED <<ok, ri, printed>>
    /\ UNCHANGED svars

\* One turn of the loop over os.listdir(src_path), in any order; a name that
\* starts with a dot is skipped.
TemplateChild ==
    /\ rpc = "copy"
    /\ tstack # <<>>
    /\ TTop.at = "loop"
    /\ \E child \in TTop.kids :
         LET rest == [tstack EXCEPT ![Len(tstack)] = [TTop EXCEPT !.kids = @ \ {child}]]
         IN  tstack' = IF StartsWithDot(child)
                       THEN rest
                       ELSE Append(rest, Call(Append(TTop.src_path, child), TTop.dest_path))
    /\ UNCHANGED <<mfs, files_to_rewrite, new_file_paths, ok, version_directory_path, exc, ri, created, printed, rpc>>
    /\ UNCHANGED svars

\* A directory's call returns; the outermost return is assigned to
\* version_directory_path.
TemplateReturn ==
    /\ rpc = "copy"
    /\ tstack # <<>>
    /\ TTop.at = "loop"
    /\ TTop.kids = {}
    /\ tstack' = SubSeq(tstack, 1, Len(tstack) - 1)
    /\ IF Len(tstack) = 1
       THEN /\ version_directory_path' = TTop.dest_path
            /\ rpc' = "rewrite"
       ELSE UNCHANGED <<version_directory_path, rpc>>
    /\ UNCHANGED <<mfs, files_to_rewrite, new_file_paths, ok, exc, ri, created, printed>>
    /\ UNCHANGED svars

\* rewrite_file on the next of files_to_rewrite
RewriteFile ==
    /\ rpc = "rewrite"
    /\ ri <= Len(files_to_rewrite)
    /\ IF mfs[files_to_rewrite[ri]] = "badfield"
       THEN /\ Raise("KeyError")
            /\ UNCHANGED <<mfs, ri>>
       ELSE /\ mfs' = [mfs EXCEPT ![files_to_rewrite[ri]] = "rewritten"]
            /\ ri' = ri + 1
            /\ UNCHANGED <<tstack, exc, rpc>>
    /\ UNCHANGED <<files_to_rewrite, new_file_paths, ok, version_directory_path, created, printed>>
    /\ UNCHANGED svars

\* Line 166
SetOk ==
    /\ rpc = "rewrite"
    /\ ri > Len(files_to_rewrite)
    /\ ok' = TRUE
    /\ rpc' = "finally"
    /\ UNCHANGED <<mfs, tstack, files_to_rewrite, new_file_paths, version_directory_path, exc, ri, created, printed>>
    /\ UNCHANGED svars

\* What the finally block leaves of the filesystem.
AfterFinally(f) ==
    LET unlinked == [q \in DOMAIN f \ VersionedJars |-> f[q]]
    IN  IF ~ok /\ version_directory_path # NoPath
        THEN rmtree(unlinked, version_directory_path)
        ELSE unlinked

\* The finally block; a pending exception then ends the script.
Finally ==
    /\ rpc = "finally"
    /\ mfs' = AfterFinally(mfs)
    /\ rpc' = IF exc # NoError THEN "raised" ELSE "print"
    /\ UNCHANGED <<tstack, files_to_rewrite, new_file_paths, ok, version_directory_path, exc, ri, created, printed>>
    /\ UNCHANGED svars

\* Lines 174-179
PrintCommands ==
    /\ rpc = "print"
    /\ printed' = <<<<"svn add", <<version_directory_path>>>>>> \o
                  [i \in 1..Len(SelectSeq(new_file_paths, LAMBDA q : mime_type_from_path(q) # None))
                     |-> <<mime_type_from_path(SelectSeq(new_file_paths, LAMBDA q : mime_type_from_path(q) # None)[i]),
                           <<SelectSeq(new_file_paths, LAMBDA q : mime_type_from_path(q) # None)[i]>>>>]
    /\ rpc' = "exit"
    /\ UNCHANGED <<mfs, tstack, files_to_rewrite, new_file_paths, ok, version_directory_path, exc, ri, created>>
    /\ UNCHANGED svars

InitRelease ==
    /\ mfs \in {f \in InitMFS : WellFormed(f)}
    /\ tstack = <<>>
    /\ files_to_rewrite = <<>>
    /\ new_file_paths = <<>>
    /\ ok = FALSE
    /\ version_directory_path = NoPath
    /\ exc = NoError
    /\ ri = 1
    /\ created = FALSE
    /\ printed = <<>>
    /\ rpc = "jars"
    /\ SyncIdle

NextRelease ==
    \/ CopyJars
    \/ TemplateCall
    \/ TemplateChild
    \/ TemplateReturn
    \/ RewriteFile
    \/ SetOk
    \/ Finally
    \/ PrintCommands

SpecRelease == InitRelease /\ [][NextRelease]_vars

(***************************************************************************)
(* C10: on every exit after the three jar copies were placed in the        *)
(* template directory they are removed again, and a run that fails after   *)
(* it created the version directory (in the template copy or in the        *)
(* rewriting) leaves no version directory behind.                          *)
(***************************************************************************)
C10_FailedRunLeavesNoVersionDirectory ==
    rpc \in {"raised", "print", "exit"} =>
        /\ VersionedJars \cap DOMAIN mfs = {}
        /\ (rpc = "raised" /\ created) => <<replace_fields(TemplateName)>> \notin DOMAIN mfs

(***************************************************************************)
(* Vocabulary of the properties.                                           *)
(***************************************************************************)
\* sync has returned and none of its commands has been run yet: fs is the
\* filesystem sync read.
EndOfRun == (pc = "exec" /\ xi = 1) \/ pc = "done"

\* No command has been run since sync started reading fs.
FsAsRead == pc # "exec" \/ xi = 1

IsUnder(q, p) == Len(q) > Len(p) /\ SubSeq(q, 1, Len(p)) = p

Parent(p) == SubSeq(p, 1, Len(p) - 1)

Range(sq) == {sq[i] : i \in 1..Len(sq)}

StateIn(f, p) == IF p \in DOMAIN f THEN f[p] ELSE NO_EXIST

HasSvnName(p) == \E i \in 1..Len(p) : p[i] = ".svn"

\* The same place in the other tree.
Mirror(p) == IF p[1] = SrcRoot[1] THEN DstRoot \o Tail(p) ELSE SrcRoot \o Tail(p)

\* The two trees are the same, entries named .svn aside.
TreesEqual ==
    \A p \in DOMAIN fs \cup {SrcRoot, DstRoot} :
        ~HasSvnName(p) => StateIn(fs, p) = StateIn(fs, Mirror(p))

IsFsCommand(c) == c.cmd \in {"rm", "cp", "mkdir"}

IsRecursiveRemoval(c) ==
    c.cmd = "rm" /\ \E k \in 1..Len(c.flags) : c.flags[k] \in {"-r", "-R", "-rf", "-fr", "--recursive"}

Visits == {i \in 1..Len(log) : log[i].a = "handle"}

Mixed(e) == <<e.src_t, e.dst_t>> \in {<<FILE, DIR>>, <<DIR, FILE>>}

StagedAdd == {log[i].dst : i \in {j \in 1..Len(log) : log[j].a = "svn_add"}}

StagedDelete == {log[i].dst : i \in {j \in 1..Len(log) : log[j].a = "svn_delete"}}

SvnCommands(flags) == {i \in 1..Len(out) : out[i].cmd = "svn" /\ out[i].flags = flags}

\* The extension of a path's last name: what follows its last dot.
FileExtension(p) ==
    LET t    == Tokens(p[Len(p)])
        dots == {i \in 1..Len(t) : t[i] = "."}
    IN  IF dots = {} THEN <<>>
        ELSE SubSeq(t, (CHOOSE i \in dots : \A j \in dots : j <= i) + 1, Len(t))

HasTableExtension(p) == FileExtension(p) \in DOMAIN MIME_TYPES_BY_EXTENSION

\* The paths a property value is recorded for.
Recorded(key) == Range(svn_propsets[key])

(***************************************************************************)
(* C1: running the filesystem commands sync printed, in order, leaves the  *)
(* destination tree identical to the source tree (entries named .svn       *)
(* aside), and a second run of sync then prints no cp, rm or mkdir.        *)
(***************************************************************************)
C1_CommandsMakeTreesEqual ==
    /\ run = 2 => TreesEqual
    /\ pc = "done" => \A i \in 1..Len(out) : ~IsFsCommand(out[i])

(***************************************************************************)
(* C2: when a run visits a (File, Directory) or (Directory, File) pair,    *)
(* conflict is true when the staging commands are printed, and svn delete  *)
(* comes before svn add with a commit of the deletions between the two.    *)
(***************************************************************************)
C2_ConflictCommitsDeletesFirst ==
    (\E v \in Visits : Mixed(log[v])) =>
        /\ pc \in {"deletes", "adds", "propsets"} => conflict
        /\ EndOfRun =>
             \E i, j, k \in 1..Len(out) :
                 /\ i < j /\ j < k
                 /\ out[i].cmd = "svn" /\ out[i].flags = <<"delete">>
                 /\ out[j].cmd = "svn" /\ out[j].flags[1] = "commit"
                 /\ out[k].cmd = "svn" /\ out[k].flags[1] = "add"

(***************************************************************************)
(* C3: handle performs, for each of the nine combinations of classes,     *)
(* exactly the actions of the specification's table for that row, in       *)
(* order; for File/File a copy is printed iff the contents differ; in the  *)
(* two mismatch rows StageDelete comes before StageAdd.                    *)
(***************************************************************************)
SpecTable ==
    (<<NO_EXIST, NO_EXIST>> :> <<>>) @@
    (<<NO_EXIST, FILE>>     :> <<"RemoveFile", "StageDelete">>) @@
    (<<NO_EXIST, DIR>>      :> <<"RecurseChildren", "RemoveDirectoryRecursive", "StageDelete">>) @@
    (<<FILE, NO_EXIST>>     :> <<"CopyFile", "StageAdd">>) @@
    (<<FILE, FILE>>         :> <<"CopyFileIfDifferent">>) @@
    (<<FILE, DIR>>          :> <<"RecurseChildren", "RemoveDirectoryRecursive", "StageDelete",
                                 "CopyFile", "StageAdd", "MarkConflict">>) @@
    (<<DIR, NO_EXIST>>      :> <<"MakeDirectory", "StageAdd", "RecurseChildren">>) @@
    (<<DIR, FILE>>          :> <<"RemoveFile", "StageDelete", "MakeDirectory", "StageAdd",
                                 "RecurseChildren", "MarkConflict">>) @@
    (<<DIR, DIR>>           :> <<"RecurseChildren">>)

KindOf(e) ==
    CASE e.a = "remove" -> IF IsRecursiveRemoval(RemoveCmd(e.src, e.dst))
                           THEN "RemoveDirectoryRecursive" ELSE "RemoveFile"
      [] e.a = "svn_delete" -> "StageDelete"
      [] e.a = "recurse" -> "RecurseChildren"
      [] e.a = "copy" -> "CopyFile"
      [] e.a = "copy_if_different" -> "CopyFileIfDifferent"
      [] e.a = "svn_add" -> "StageAdd"
      [] e.a = "cnf" -> "MarkConflict"
      [] e.a = "mkdir" -> "MakeDirectory"
      [] OTHER -> "?"

OwnAction(e, dst) == e.dst = dst /\ e.a # "handle"

Performed(dst) ==
    LET own == SelectSeq(log, LAMBDA e : OwnAction(e, dst))
    IN  [i \in 1..Len(own) |-> KindOf(own[i])]

C3_HandleFollowsSpecTable ==
    EndOfRun =>
        \A v \in Visits :
            /\ log[v].src_t \in {NO_EXIST, FILE, DIR}
            /\ log[v].dst_t \in {NO_EXIST, FILE, DIR}
            /\ Performed(log[v].dst) = SpecTable[<<log[v].src_t, log[v].dst_t>>]
            /\ <<log[v].src_t, log[v].dst_t>> = <<FILE, FILE>> =>
                 ((\E i \in 1..Len(out) : out[i].cmd = "cp" /\ out[i].args = <<log[v].src, log[v].dst>>)
                    <=> fs[log[v].src] # fs[log[v].dst])
            /\ Mixed(log[v]) =>
                 \E i, j \in 1..Len(log) :
                     /\ i < j
                     /\ log[i].dst = log[v].dst /\ log[i].a = "svn_delete"
                     /\ log[j].dst = log[v].dst /\ log[j].a = "svn_add"

(***************************************************************************)
(* C4: when the destination is a directory and the source is absent or a   *)
(* file, the removal printed for the destination is a recursive directory  *)
(* removal, not the plain rm printed for a file.                           *)
(***************************************************************************)
C4_DirectoryRemovalIsRecursive ==
    \A i \in 1..Len(log) :
        (log[i].a = "remove" /\ log[i].dst_t = DIR /\ log[i].src_t \in {NO_EXIST, FILE}) =>
            \E j \in 1..Len(out) :
                /\ out[j].args = <<log[i].dst>>
                /\ IsRecursiveRemoval(out[j])
                /\ out[j] # RemoveCmd(log[i].src, log[i].dst) \/ IsRecursiveRemoval(RemoveCmd(log[i].src, log[i].dst))

(***************************************************************************)
(* C5: when the two trees are already the same, sync prints no command and *)
(* stages nothing: no addition, no deletion, no property.                  *)
(***************************************************************************)
C5_InSyncEmitsNothing ==
    (FsAsRead /\ TreesEqual) =>
        /\ out = <<>>
        /\ svn_adds = <<>>
        /\ svn_deletes = <<>>
        /\ DOMAIN svn_propsets = {}

C5_Witness ==
    /\ EndOfRun
    /\ run = 1
    /\ TreesEqual
    /\ \E i \in 1..Len(log) : log[i].a = "copy_if_different"
    /\ \E v \in Visits : <<log[v].src_t, log[v].dst_t>> = <<DIR, DIR>>

(***************************************************************************)
(* C6: at the end of a run there is one svn delete exactly when a path was *)
(* staged for deletion, one svn add --depth=empty exactly when a path was  *)
(* staged for addition, each listing exactly the staged paths, and one svn *)
(* propset per (name, value) pair, listing exactly the paths given that    *)
(* value.                                                                  *)
(***************************************************************************)
Assigned(value) == {p \in StagedAdd : HasTableExtension(p) /\ MIME_TYPES_BY_EXTENSION[FileExtension(p)] = value}

MimeValues == {MIME_TYPES_BY_EXTENSION[e] : e \in DOMAIN MIME_TYPES_BY_EXTENSION}

PropsetCommands == {i \in 1..Len(out) : out[i].cmd = "svn" /\ out[i].flags[1] = "propset"}

Batch(flags, staged) ==
    /\ Cardinality(SvnCommands(flags)) = IF staged = {} THEN 0 ELSE 1
    /\ \A i \in SvnCommands(flags) :
         /\ Range(out[i].args) = staged
         /\ Len(out[i].args) = Cardinality(staged)

C6_OneBatchPerKind ==
    EndOfRun =>
        /\ Batch(<<"delete">>, StagedDelete)
        /\ \A i \in 1..Len(out) : (out[i].cmd = "svn" /\ out[i].flags[1] = "delete") => out[i].flags = <<"delete">>
        /\ Batch(<<"add", "--depth=empty">>, StagedAdd)
        /\ \A i \in 1..Len(out) : (out[i].cmd = "svn" /\ out[i].flags[1] = "add") => out[i].flags = <<"add", "--depth=empty">>
        /\ \A value \in MimeValues : Batch(<<"propset", "svn:mime-type", value>>, Assigned(value))
        /\ \A i \in PropsetCommands : out[i].flags[2] = "svn:mime-type" /\ out[i].flags[3] \in MimeValues

C6_Witness ==
    /\ EndOfRun
    /\ SvnCommands(<<"delete">>) # {}
    /\ SvnCommands(<<"add", "--depth=empty">>) # {}
    /\ \E i \in PropsetCommands : Len(out[i].args) = 2

(***************************************************************************)
(* C7: a property is recorded for a path iff the path was staged for       *)
(* addition and the extension of its name is in the table, and the value   *)
(* is the table's; other extensions, no extension and paths only staged    *)
(* for deletion get none.                                                  *)
(***************************************************************************)
C7_PropertyIffAddedWithTableExtension ==
    /\ \A key \in DOMAIN svn_propsets :
         \A p \in Recorded(key) :
             /\ p \in StagedAdd
             /\ HasTableExtension(p)
             /\ key = <<"svn:mime-type", MIME_TYPES_BY_EXTENSION[FileExtension(p)]>>
    /\ \A p \in StagedAdd :
         HasTableExtension(p) => \E key \in DOMAIN svn_propsets : p \in Recorded(key)
    /\ Range(svn_adds) = StagedAdd

C7_Witness ==
    /\ \E key \in DOMAIN svn_propsets : \E p \in Recorded(key) : Len(p) = 3
    /\ \E p \in StagedAdd : ~HasTableExtension(p) /\ \E i \in 1..Len(Tokens(p[Len(p)])) : Tokens(p[Len(p)])[i] = "."

(***************************************************************************)
(* C8: for a Directory/Directory pair nothing is printed or staged for the *)
(* pair itself, and its children are visited once each: every name present *)
(* on either side except .svn, no other, none twice.                       *)
(***************************************************************************)
ChildNames(src, dst) == (listdir(src) \cup listdir(dst)) \ {".svn"}

C8_DirDirVisitsEachChildOnce ==
    /\ \A v, w \in Visits : log[v].dst = log[w].dst => v = w
    /\ EndOfRun =>
         \A v \in Visits :
             <<log[v].src_t, log[v].dst_t>> = <<DIR, DIR>> =>
                 /\ \A i \in 1..Len(log) : log[i].dst = log[v].dst => log[i].a \in {"handle", "recurse"}
                 /\ \A i \in 1..Len(out) : log[v].dst \notin Range(out[i].args)
                 /\ {<<log[w].src, log[w].dst>> : w \in {u \in Visits : Parent(log[u].dst) = log[v].dst}}
                      = {<<join(log[v].src, c), join(log[v].dst, c)>> : c \in ChildNames(log[v].src, log[v].dst)}

C8_Witness ==
    /\ EndOfRun
    /\ \E v \in Visits :
         /\ <<log[v].src_t, log[v].dst_t>> = <<DIR, DIR>>
         /\ (listdir(log[v].src) \ listdir(log[v].dst)) # {}
         /\ listdir(log[v].dst) \ listdir(log[v].src) # {}
         /\ ".svn" \in listdir(log[v].dst)

(***************************************************************************)
(* C9 as written: in the order of the actions of a run, in File/Directory, *)
(* Directory/File and Absent/Directory every action on the pair's children *)
(* comes before the pair's removal; in Directory/Directory and             *)
(* Directory/Absent the recursion is the last action of the pair, and a    *)
(* mkdir comes before every action on the children.                        *)
(***************************************************************************)
\* log[i] is an action of a pair and log[j] one on a path below the pair's.
OnChild(i, j) == log[i].a # "handle" /\ IsUnder(log[j].dst, log[i].dst)

Row(i) == <<log[i].src_t, log[i].dst_t>>

RecurseIsLast(i, j) == Row(i) \in {<<DIR, DIR>>, <<DIR, NO_EXIST>>} => i < j

MkdirBeforeChildren(i, j) == log[i].a = "mkdir" => i < j

C9_ChildrenBeforeRemoval ==
    EndOfRun => \A i, j \in 1..Len(log) :
        OnChild(i, j) =>
            /\ (log[i].a = "remove" /\ Row(i) \in {<<FILE, DIR>>, <<DIR, FILE>>, <<NO_EXIST, DIR>>}) => j < i
            /\ RecurseIsLast(i, j)
            /\ MkdirBeforeChildren(i, j)

(***************************************************************************)
(* C9 amended: in the order of the actions of a run, in File/Directory and *)
(* Absent/Directory every action on the pair's children comes before the   *)
(* pair's removal; in Directory/File the removal and the mkdir come before *)
(* every action on the children and only MarkConflict follows them; in     *)
(* Directory/Directory and Directory/Absent the recursion is the last      *)
(* action of the pair; a mkdir comes before every action on the children.  *)
(***************************************************************************)
C9_RecursionOrder ==
    EndOfRun => \A i, j \in 1..Len(log) :
        OnChild(i, j) =>
            /\ (log[i].a = "remove" /\ Row(i) \in {<<FILE, DIR>>, <<NO_EXIST, DIR>>}) => j < i
            /\ (Row(i) = <<DIR, FILE>> /\ log[i].a # "cnf") => i < j
            /\ (Row(i) = <<DIR, FILE>> /\ log[i].a = "cnf") => j < i
            /\ RecurseIsLast(i, j)
            /\ MkdirBeforeChildren(i, j)

C9_Witness ==
    /\ EndOfRun
    /\ \E i, j, k \in 1..Len(log) :
         /\ i < j /\ j < k
         /\ log[i].a = "mkdir" /\ log[i].dst_t = FILE
         /\ IsUnder(log[j].dst, log[i].dst)
         /\ log[k].a = "cnf" /\ log[k].dst = log[i].dst
====
